---------------------------- MODULE Spec2Model ----------------------------
(***************************************************************************)
(* Model of the seller-apis inventory synchroniser (src/seller.py for      *)
(* marketplace B, src/market.py for marketplace A).                        *)
(*                                                                         *)
(* Python values.  A str is a sequence of one-character strings, an int    *)
(* is an integer.  A feed cell can hold either (pandas reads a numeric     *)
(* column as numbers), so it is tagged: PyStr(s) or PyInt(n).  The feed    *)
(* columns "Код", "Количество" and "Цена" are the record fields Kod,       *)
(* Kolichestvo and Tsena; Cyrillic letters of a price are written "r".     *)
(***************************************************************************)
EXTENDS Integers, Sequences, FiniteSets, TLC

VARIABLES
    watch_remnants,  \* the feed: a sequence of records [Kod, Kolichestvo, Tsena]
    offer_ids,       \* the identifier list the resolver returned (a mutable list)
    clock,           \* datetime.datetime.utcnow(): [sec, usec]
    ret,             \* what the last reconciliation call returned
    prev,            \* what the reconciliation call of the previous pass returned
    price,           \* argument of price_conversion
    converted,       \* result of price_conversion, NotCalled before the call
    lst,             \* argument of divide
    n,               \* chunk size of divide
    chunks,          \* list(divide(lst, n)), NotCalled before the call
    pc,              \* where get_offer_ids stands
    page,            \* market.get_offer_ids: the page token of the next request
    last_id,         \* seller.get_offer_ids: the last_id of the next request
    product_list,    \* get_offer_ids: the items accumulated so far
    requests,        \* the cursors get_product_list was called with, in order
    responses,       \* the results get_product_list returned, in order
    routine,         \* the routine that runs: an upload routine, a main, or none
    campaign,        \* market.main: the campaign of the current run, FBS or DBS
    stock_list,      \* the routine's list "stocks"
    price_list,      \* the routine's list "prices"
    batches,         \* the chunks of list(divide(...)) the loop has not sent yet
    calls,           \* the marketplace calls the routine made, in order
    err,             \* the exception raised in the routine, NoError if none
    printed          \* what main printed

vars == <<watch_remnants, offer_ids, clock, ret, prev, price, converted, lst, n, chunks,
          pc, page, last_id, product_list, requests, responses,
          routine, campaign, stock_list, price_list, batches, calls, err, printed>>

reconcile_vars == <<watch_remnants, offer_ids, clock, ret, prev>>
price_vars == <<price, converted>>
divide_vars == <<lst, n, chunks>>
resolver_vars == <<pc, page, last_id, product_list, requests, responses>>
run_vars == <<routine, campaign, stock_list, price_list, batches, calls, err, printed>>

-----------------------------------------------------------------------------
(* Bounds of the model. *)

\* longest feed
MaxFeed == 2
\* longest price string drawn from PriceChars
MaxPrice == 3
\* most pages a resolver asks for
MaxPages == 3
\* largest total marketplace B reports
MaxTotal == 3
\* longest list handed to divide
MaxLst == 5
\* largest chunk size handed to divide
MaxChunk == 3
\* last whole second the clock reaches
MaxSec == 1

-----------------------------------------------------------------------------
(* Python built-ins used by the two modules. *)

PyStr(s) == [t |-> "str", v |-> s]
PyInt(i) == [t |-> "int", v |-> i]

\* a result variable before and after the call
NotCalled == [returned |-> FALSE, value |-> <<>>]
Result(value) == [returned |-> TRUE, value |-> value]

Digits == <<"0", "1", "2", "3", "4", "5", "6", "7", "8", "9">>

IsDigit(c) == \E d \in 1..Len(Digits) : Digits[d] = c

DigitValue(c) == (CHOOSE d \in 1..Len(Digits) : Digits[d] = c) - 1

\* str(i) of a non-negative int: its decimal digits, most significant first
RECURSIVE DecStr(_)
DecStr(i) == IF i < 10 THEN <<Digits[i + 1]>>
             ELSE Append(DecStr(i \div 10), Digits[(i % 10) + 1])

\* str(x): a str is returned as it is, an int is rendered in decimal
ToStr(x) == IF x.t = "int" THEN DecStr(x.v) ELSE x.v

\* value of a sequence of decimal digits
RECURSIVE DecValue(_)
DecValue(s) == IF s = <<>> THEN 0
               ELSE 10 * DecValue(SubSeq(s, 1, Len(s) - 1)) + DigitValue(s[Len(s)])

\* int(s) of a str: raises ValueError unless s is a non-empty run of digits
\* (the strings of this model hold no sign, blank or underscore)
IntOfStr(s) ==
    IF s # <<>> /\ \A k \in 1..Len(s) : IsDigit(s[k])
    THEN [raised |-> FALSE, value |-> DecValue(s)]
    ELSE [raised |-> TRUE, value |-> 0]

\* int(x): an int is returned as it is, a str is parsed
ToInt(x) == IF x.t = "int" THEN [raised |-> FALSE, value |-> x.v] ELSE IntOfStr(x.v)

\* x in list
ListContains(list, x) == \E k \in 1..Len(list) : list[k] = x

\* list.remove(x) without effect: the list keeps x
ListRemoveKeeps(list, x) == list

\* list.remove(x): drops the first occurrence of x (x is in the list at every call)
ListRemove(list, x) ==
    LET k == CHOOSE j \in 1..Len(list) : list[j] = x /\ \A h \in 1..(j - 1) : list[h] # x
    IN  SubSeq(list, 1, k - 1) \o SubSeq(list, k + 1, Len(list))

-----------------------------------------------------------------------------
(* seller.price_conversion and seller.divide *)

\* index of the first "." of s, Len(s) + 1 when s has none
RECURSIVE FindSep(_, _, _)
FindSep(s, sep, k) == IF k > Len(s) \/ s[k] = sep THEN k ELSE FindSep(s, sep, k + 1)

\* s.split(sep): the pieces of s between the occurrences of sep
RECURSIVE Split(_, _)
Split(s, sep) ==
    LET k == FindSep(s, sep, 1)
    IN  IF k > Len(s) THEN <<s>>
        ELSE <<SubSeq(s, 1, k - 1)>> \o Split(SubSeq(s, k + 1, Len(s)), sep)

\* re.sub("[^0-9]", "", s): s without the characters that are not 0-9
RECURSIVE ReSubNonDigits(_)
ReSubNonDigits(s) ==
    IF s = <<>> THEN <<>>
    ELSE IF IsDigit(Head(s)) THEN <<Head(s)>> \o ReSubNonDigits(Tail(s))
    ELSE ReSubNonDigits(Tail(s))

\* price_conversion that strips the non-digits of the whole string
price_conversion_no_split(p) == ReSubNonDigits(p)

\* price_conversion that keeps the piece after the last "." (index -1 for 0)
price_conversion_last_piece(p) == ReSubNonDigits(Split(p, ".")[Len(Split(p, "."))])

\* line 325
price_conversion(p) == ReSubNonDigits(Split(p, ".")[1])

\* range(0, length, step) for step >= 1
RECURSIVE Range(_, _, _)
Range(start, stop, step) ==
    IF start >= stop THEN <<>> ELSE <<start>> \o Range(start + step, stop, step)

\* list[i : j] for 0 <= i <= j (0-based, j exclusive, clipped to the list)
Slice(list, i, j) == SubSeq(list, i + 1, IF j > Len(list) THEN Len(list) ELSE j)

\* divide whose slices are one element short
divide_short(list, size) ==
    LET starts == Range(0, Len(list), size)
    IN  [k \in 1..Len(starts) |-> Slice(list, starts[k], starts[k] + size - 1)]

\* list(divide(list, size))
divide(list, size) ==
    LET starts == Range(0, Len(list), size)
    IN  [k \in 1..Len(starts) |-> Slice(list, starts[k], starts[k] + size)]

-----------------------------------------------------------------------------
(* Reconciliation: seller.create_stocks / create_prices *)

\* the quantity rule of seller.create_stocks without the "1" -> 0 branch
seller_stock_plain(watch) ==
    LET count == ToStr(watch.Kolichestvo)
    IN  IF count = <<">", "1", "0">> THEN [raised |-> FALSE, value |-> 100]
        ELSE ToInt(watch.Kolichestvo)

\* the count of a matched record (lines 252-258)
seller_stock(watch) ==
    LET count == ToStr(watch.Kolichestvo)
    IN  IF count = <<">", "1", "0">> THEN [raised |-> FALSE, value |-> 100]
        ELSE IF count = <<"1">> THEN [raised |-> FALSE, value |-> 0]
        ELSE ToInt(watch.Kolichestvo)

\* the first loop of seller.create_stocks from record i on; a ValueError of int()
\* leaves the loop with the list as mutated so far
RECURSIVE seller_stocks_loop(_, _, _, _)
seller_stocks_loop(remnants, i, ids, stocks) ==
    IF i > Len(remnants) THEN [raised |-> FALSE, stocks |-> stocks, offer_ids |-> ids]
    ELSE LET watch == remnants[i]
             code == ToStr(watch.Kod)
         IN  IF ListContains(ids, code)
             THEN LET stock == seller_stock(watch)
                  IN  IF stock.raised
                      THEN [raised |-> TRUE, stocks |-> stocks, offer_ids |-> ids]
                      ELSE seller_stocks_loop(remnants, i + 1, ListRemove(ids, code),
                               Append(stocks, [offer_id |-> code, stock |-> stock.value]))
             ELSE seller_stocks_loop(remnants, i + 1, ids, stocks)

\* the second loop of seller.create_stocks, walking the list backwards
seller_missing_reversed(ids) ==
    [k \in 1..Len(ids) |-> [offer_id |-> ids[Len(ids) + 1 - k], stock |-> 0]]

\* the second loop of seller.create_stocks: a zero entry per identifier left
seller_missing(ids) == [k \in 1..Len(ids) |-> [offer_id |-> ids[k], stock |-> 0]]

\* seller.create_stocks: the returned list (value) and the caller's list afterwards
seller_create_stocks(remnants, ids) ==
    LET loop == seller_stocks_loop(remnants, 1, ids, <<>>)
    IN  IF loop.raised
        THEN [raised |-> TRUE, value |-> <<>>, offer_ids |-> loop.offer_ids]
        ELSE [raised |-> FALSE, value |-> loop.stocks \o seller_missing(loop.offer_ids),
              offer_ids |-> loop.offer_ids]

\* seller.create_prices with a membership test that always succeeds
seller_price_wanted_always(watch, ids) == TRUE

\* the test of seller.create_prices (line 295)
seller_price_wanted(watch, ids) == ListContains(ids, ToStr(watch.Kod))

\* the entry seller.create_prices builds (lines 296-302)
seller_price_entry(watch) ==
    [auto_action_enabled |-> "UNKNOWN", currency_code |-> "RUB",
     offer_id |-> ToStr(watch.Kod), old_price |-> "0",
     price |-> price_conversion(watch.Tsena)]

\* the loop of seller.create_prices (lines 294-303): the records that pass the
\* test, each turned into its entry, in feed order
seller_prices_loop(remnants, ids) ==
    LET Wanted(watch) == seller_price_wanted(watch, ids)
        listed == SelectSeq(remnants, Wanted)
    IN  [k \in 1..Len(listed) |-> seller_price_entry(listed[k])]

\* seller.create_prices: the list is only read
seller_create_prices(remnants, ids) ==
    [raised |-> FALSE, value |-> seller_prices_loop(remnants, ids), offer_ids |-> ids]

-----------------------------------------------------------------------------
(* Reconciliation: market.create_stocks / create_prices *)

\* the timestamp of market.create_stocks without replace(microsecond=0)
market_date_with_microseconds(now) == [sec |-> now.sec, usec |-> now.usec, suffix |-> "Z"]

\* str(utcnow().replace(microsecond=0).isoformat() + "Z") (line 190)
market_date(now) == [sec |-> now.sec, usec |-> 0, suffix |-> "Z"]

\* the count of a matched record (lines 193-199)
market_stock(watch) ==
    LET count == ToStr(watch.Kolichestvo)
    IN  IF count = <<">", "1", "0">> THEN [raised |-> FALSE, value |-> 100]
        ELSE IF count = <<"1">> THEN [raised |-> FALSE, value |-> 0]
        ELSE ToInt(watch.Kolichestvo)

\* the entry market.create_stocks builds (lines 201-211 and 217-227)
market_stock_entry(sku, warehouse_id, count, date) ==
    [sku |-> sku, warehouseId |-> warehouse_id,
     items |-> <<[count |-> count, type |-> "FIT", updatedAt |-> date]>>]

RECURSIVE market_stocks_loop(_, _, _, _, _, _)
market_stocks_loop(remnants, i, ids, warehouse_id, date, stocks) ==
    IF i > Len(remnants) THEN [raised |-> FALSE, stocks |-> stocks, offer_ids |-> ids]
    ELSE LET watch == remnants[i]
             code == ToStr(watch.Kod)
         IN  IF ListContains(ids, code)
             THEN LET stock == market_stock(watch)
                  IN  IF stock.raised
                      THEN [raised |-> TRUE, stocks |-> stocks, offer_ids |-> ids]
                      ELSE market_stocks_loop(remnants, i + 1, ListRemove(ids, code),
                               warehouse_id, date,
                               Append(stocks,
                                   market_stock_entry(code, warehouse_id, stock.value, date)))
             ELSE market_stocks_loop(remnants, i + 1, ids, warehouse_id, date, stocks)

\* the second loop of market.create_stocks (lines 215-228)
market_missing(ids, warehouse_id, date) ==
    [k \in 1..Len(ids) |-> market_stock_entry(ids[k], warehouse_id, 0, date)]

\* market.create_stocks called when the clock shows now
market_create_stocks(remnants, ids, warehouse_id, now) ==
    LET date == market_date(now)
        loop == market_stocks_loop(remnants, 1, ids, warehouse_id, date, <<>>)
    IN  IF loop.raised
        THEN [raised |-> TRUE, value |-> <<>>, offer_ids |-> loop.offer_ids]
        ELSE [raised |-> FALSE,
              value |-> loop.stocks \o market_missing(loop.offer_ids, warehouse_id, date),
              offer_ids |-> loop.offer_ids]

\* a conversion that would take a price without digits as 0
market_price_value_or_zero(watch) ==
    LET r == IntOfStr(price_conversion(watch.Tsena))
    IN  [raised |-> FALSE, value |-> IF r.raised THEN 0 ELSE r.value]

\* market.create_prices; int() of a price without a digit raises ValueError
\* the price value of a record: int(price_conversion(...)) (line 262)
market_price_value(watch) == IntOfStr(price_conversion(watch.Tsena))

\* the entry market.create_prices builds (lines 258-269)
market_price_entry(watch) ==
    [id |-> ToStr(watch.Kod),
     price |-> [value |-> market_price_value(watch).value, currencyId |-> "RUR"]]

\* the loop of market.create_prices (lines 256-270): the listed records, each
\* turned into its entry, in feed order; the first int() that fails ends it
market_prices_loop(remnants, ids) ==
    LET Wanted(watch) == ListContains(ids, ToStr(watch.Kod))
        listed == SelectSeq(remnants, Wanted)
    IN  [raised |-> \E k \in 1..Len(listed) : market_price_value(listed[k]).raised,
         prices |-> [k \in 1..Len(listed) |-> market_price_entry(listed[k])]]

market_create_prices(remnants, ids) ==
    LET loop == market_prices_loop(remnants, ids)
    IN  [raised |-> loop.raised, value |-> IF loop.raised THEN <<>> ELSE loop.prices,
         offer_ids |-> ids]

-----------------------------------------------------------------------------
(* Inputs of the reconciliation *)

\* identifiers the marketplace lists
Ids == {<<"A">>, <<"B">>, <<"C">>}

\* the resolver's lists: every identifier of the marketplace at most once
OfferLists ==
    {ids \in UNION {[1..len -> Ids] : len \in 0..Cardinality(Ids)} :
        \A j, k \in 1..Len(ids) : j # k => ids[j] # ids[k]}

\* "5'990.00 rrr." stands for the feed's "5'990.00 руб."
PriceRub == <<"5", "'", "9", "9", "0", ".", "0", "0", " ", "r", "r", "r", ".">>
Price100 == <<"1", "0", "0">>
PriceDotted == <<"1", ".", "9", "9", "9", ",", "5", "0">>
PriceNoDigit == <<"r", "r", "r", ".">>

\* (quantity, price) cells of a feed row
Cells ==
    { <<PyStr(<<">", "1", "0">>), PriceRub>>,
      <<PyStr(<<"1">>), Price100>>,
      <<PyInt(1), PriceDotted>>,
      <<PyStr(<<"7">>), PriceNoDigit>>,
      <<PyStr(<<"0">>), Price100>>,
      <<PyInt(12), PriceRub>>,
      <<PyStr(<<"n", "e", "t">>), Price100>> }

Row(code, cell) == [Kod |-> PyStr(code), Kolichestvo |-> cell[1], Tsena |-> cell[2]]

\* rows of listed products with every cell, and a row of a product that is not listed
Rows == {Row(code, cell) : code \in {<<"A">>, <<"B">>}, cell \in Cells}
            \cup {Row(<<"Z">>, <<PyStr(<<"7">>), Price100>>)}

Feeds(rows) == UNION {[1..len -> rows] : len \in 0..MaxFeed}

Warehouses == {"WAREHOUSE_FBS_ID", "WAREHOUSE_DBS_ID"}

Epoch == [sec |-> 0, usec |-> 0]

NoRet == [fn |-> "none", raised |-> FALSE, value |-> <<>>, in_ids |-> <<>>,
          warehouse_id |-> "none", now |-> Epoch]

Returned(fn, r, ids, warehouse_id) ==
    [fn |-> fn, raised |-> r.raised, value |-> r.value, in_ids |-> ids,
     warehouse_id |-> warehouse_id, now |-> clock]

-----------------------------------------------------------------------------
(* The reconciliation calls *)

CallSellerCreateStocks ==
    LET r == seller_create_stocks(watch_remnants, offer_ids)
    IN  /\ ret' = Returned("seller.create_stocks", r, offer_ids, "none")
        /\ offer_ids' = r.offer_ids
        /\ UNCHANGED <<watch_remnants, clock, prev, price_vars, run_vars, divide_vars, resolver_vars>>

CallSellerCreatePrices ==
    LET r == seller_create_prices(watch_remnants, offer_ids)
    IN  /\ ret' = Returned("seller.create_prices", r, offer_ids, "none")
        /\ offer_ids' = r.offer_ids
        /\ UNCHANGED <<watch_remnants, clock, prev, price_vars, run_vars, divide_vars, resolver_vars>>

CallMarketCreateStocks(warehouse_id) ==
    LET r == market_create_stocks(watch_remnants, offer_ids, warehouse_id, clock)
    IN  /\ ret' = Returned("market.create_stocks", r, offer_ids, warehouse_id)
        /\ offer_ids' = r.offer_ids
        /\ UNCHANGED <<watch_remnants, clock, prev, price_vars, run_vars, divide_vars, resolver_vars>>

CallMarketCreatePrices ==
    LET r == market_create_prices(watch_remnants, offer_ids)
    IN  /\ ret' = Returned("market.create_prices", r, offer_ids, "none")
        /\ offer_ids' = r.offer_ids
        /\ UNCHANGED <<watch_remnants, clock, prev, price_vars, run_vars, divide_vars, resolver_vars>>

IdlePrice == price = <<>> /\ converted = NotCalled

IdleDivide == lst = <<>> /\ n = 1 /\ chunks = NotCalled

IdleResolver ==
    /\ pc = "idle" /\ page = "" /\ last_id = ""
    /\ product_list = <<>> /\ requests = <<>> /\ responses = <<>>

NoError == "NoError"

IdleRun ==
    /\ routine = "none" /\ campaign = "none"
    /\ stock_list = <<>> /\ price_list = <<>> /\ batches = <<>>
    /\ calls = <<>> /\ err = NoError /\ printed = <<>>

IdleReconcile ==
    /\ watch_remnants = <<>> /\ offer_ids = <<>> /\ clock = Epoch
    /\ ret = NoRet /\ prev = NoRet

InitReconcile ==
    /\ watch_remnants \in Feeds(Rows)
    /\ offer_ids \in OfferLists
    /\ clock = Epoch
    /\ ret = NoRet
    /\ prev = NoRet
    /\ IdlePrice /\ IdleDivide /\ IdleResolver
    /\ IdleRun

NextReconcile ==
    \/ CallSellerCreateStocks
    \/ CallSellerCreatePrices
    \/ \E warehouse_id \in Warehouses : CallMarketCreateStocks(warehouse_id)
    \/ CallMarketCreatePrices

SpecReconcile == InitReconcile /\ [][NextReconcile]_vars

-----------------------------------------------------------------------------
(* Reading a returned list *)

StockFns == {"seller.create_stocks", "market.create_stocks"}
PriceFns == {"seller.create_prices", "market.create_prices"}

EntryId(fn, e) ==
    IF fn = "market.create_stocks" THEN e.sku
    ELSE IF fn = "market.create_prices" THEN e.id
    ELSE e.offer_id

EntryCount(fn, e) == IF fn = "market.create_stocks" THEN e.items[1].count ELSE e.stock

RetIds == [k \in 1..Len(ret.value) |-> EntryId(ret.fn, ret.value[k])]

Elems(seq) == {seq[k] : k \in 1..Len(seq)}

FeedCodes == [k \in 1..Len(watch_remnants) |-> ToStr(watch_remnants[k].Kod)]

\* seq without the later occurrences of an element
RECURSIVE Uniq(_)
Uniq(seq) ==
    IF seq = <<>> THEN <<>>
    ELSE LET front == Uniq(SubSeq(seq, 1, Len(seq) - 1))
             last == seq[Len(seq)]
         IN  IF last \in Elems(front) THEN front ELSE Append(front, last)

OnePerIdentifier ==
    /\ Len(RetIds) = Len(ret.in_ids)
    /\ \A id \in Elems(ret.in_ids) : Cardinality({k \in 1..Len(RetIds) : RetIds[k] = id}) = 1
    /\ \A k \in 1..Len(RetIds) : RetIds[k] \in Elems(ret.in_ids)

\* C1: a stock list that create_stocks (either module) returns holds exactly
\* one entry per identifier of the list handed in, none twice, none outside it.
C1_StocksOnePerIdentifier ==
    (ret.fn \in StockFns /\ ~ret.raised) => OnePerIdentifier

\* a feed that repeats a listed code, reconciled against a list of two or more
C1_Witness ==
    /\ ret.fn = "seller.create_stocks" /\ ~ret.raised
    /\ Len(watch_remnants) = 2
    /\ FeedCodes[1] = FeedCodes[2]
    /\ FeedCodes[1] \in Elems(ret.in_ids)
    /\ Len(ret.in_ids) >= 2

\* C2 as stated: a price list that create_prices (either module) returns holds
\* exactly one entry per identifier of the list handed in.
C2_PricesOnePerIdentifier ==
    (ret.fn \in PriceFns /\ ~ret.raised) => OnePerIdentifier

\* C2 amended: a price list that create_prices returns holds one entry per feed
\* record whose code is in the list handed in, in feed order (a repeated code
\* repeats its entry, an identifier the feed does not mention has none), and
\* the list handed in is left as it was.
C2_PricesOnePerListedRecord ==
    (ret.fn \in PriceFns /\ ~ret.raised) =>
        LET Listed(code) == code \in Elems(ret.in_ids)
        IN  /\ RetIds = SelectSeq(FeedCodes, Listed)
            /\ offer_ids = ret.in_ids

\* a repeated listed code gives two price entries, another identifier gives none
C2_Witness ==
    /\ ret.fn = "seller.create_prices"
    /\ Len(watch_remnants) = 2
    /\ FeedCodes[1] = FeedCodes[2]
    /\ Len(ret.value) = 2
    /\ \E id \in Elems(ret.in_ids) : id \notin Elems(RetIds)

\* the count the quantity rule asks for
ExpectedCount(quantity) ==
    IF ToStr(quantity) = <<">", "1", "0">> THEN 100
    ELSE IF ToStr(quantity) = <<"1">> THEN 0
    ELSE CHOOSE count \in 0..100 : DecStr(count) = ToStr(quantity)

\* C3: in a returned stock list the entry of every matched feed record (the
\* first record of a listed code) carries 100 for ">10", 0 for "1" (text or
\* number) and otherwise the integer the descriptor denotes.
C3_QuantityRule ==
    (ret.fn \in StockFns /\ ~ret.raised) =>
        \A k \in 1..Len(watch_remnants) :
            (/\ FeedCodes[k] \in Elems(ret.in_ids)
             /\ \A h \in 1..(k - 1) : FeedCodes[h] # FeedCodes[k])
            => /\ \E j \in 1..Len(RetIds) : RetIds[j] = FeedCodes[k]
               /\ \A j \in 1..Len(RetIds) :
                      RetIds[j] = FeedCodes[k] =>
                          EntryCount(ret.fn, ret.value[j])
                              = ExpectedCount(watch_remnants[k].Kolichestvo)

\* the number 1 and the text "7" are matched: counts 0 and 7
C3_Witness ==
    /\ ret.fn \in StockFns /\ ~ret.raised
    /\ Len(watch_remnants) = 2
    /\ watch_remnants[1].Kolichestvo = PyInt(1)
    /\ watch_remnants[2].Kolichestvo = PyStr(<<"7">>)
    /\ Len(ret.value) >= 2
    /\ RetIds[1] = FeedCodes[1] /\ EntryCount(ret.fn, ret.value[1]) = 0
    /\ RetIds[2] = FeedCodes[2] /\ EntryCount(ret.fn, ret.value[2]) = 7

ExampleFeed ==
    << Row(<<"A">>, <<PyStr(<<">", "1", "0">>), PriceRub>>),
       Row(<<"B">>, <<PyStr(<<"1">>), Price100>>) >>

ExampleIds == << <<"A">>, <<"B">>, <<"C">> >>

\* C7: a returned stock list holds the matched identifiers in the order of
\* their first record in the feed, then the unmatched identifiers in the order
\* of the list handed in; feed [{A,">10"},{B,"1"}] with (A,B,C) gives
\* [(A,100),(B,0),(C,0)].
C7_StockOrder ==
    (ret.fn \in StockFns /\ ~ret.raised) =>
        LET Listed(code) == code \in Elems(ret.in_ids)
            Missing(id) == id \notin Elems(FeedCodes)
        IN  /\ RetIds = SelectSeq(Uniq(FeedCodes), Listed) \o SelectSeq(ret.in_ids, Missing)
            /\ (watch_remnants = ExampleFeed /\ ret.in_ids = ExampleIds) =>
                   [k \in 1..Len(ret.value) |-> EntryCount(ret.fn, ret.value[k])]
                       = <<100, 0, 0>>

\* two records matched in feed order (B before A) and two identifiers left over
C7_Witness ==
    /\ ret.fn = "seller.create_stocks" /\ ~ret.raised
    /\ ret.in_ids = << <<"C">>, <<"A">>, <<"B">> >>
    /\ RetIds = << <<"B">>, <<"A">>, <<"C">> >>

-----------------------------------------------------------------------------
(* Two passes over the same feed: the list is resolved again to the same      *)
(* contents before the second pass, and the clock runs on.                    *)

IdemRows ==
    { Row(<<"A">>, <<PyStr(<<">", "1", "0">>), PriceRub>>),
      Row(<<"B">>, <<PyInt(1), PriceDotted>>),
      Row(<<"A">>, <<PyStr(<<"7">>), PriceNoDigit>>),
      Row(<<"B">>, <<PyStr(<<"n", "e", "t">>), Price100>>),
      Row(<<"Z">>, <<PyStr(<<"7">>), Price100>>) }

\* utcnow() moves on: within the second, or to the next second
Tick ==
    /\ \/ clock.usec = 0 /\ clock' = [sec |-> clock.sec, usec |-> 1]
       \/ clock.sec < MaxSec /\ clock' = [sec |-> clock.sec + 1, usec |-> 0]
    /\ UNCHANGED <<watch_remnants, offer_ids, ret, prev, price_vars, run_vars, divide_vars, resolver_vars>>

\* the next pass: get_offer_ids returns the list with the contents it had
NextPass ==
    /\ ret # NoRet /\ prev = NoRet
    /\ prev' = ret
    /\ ret' = NoRet
    /\ offer_ids' = ret.in_ids
    /\ UNCHANGED <<watch_remnants, clock, price_vars, run_vars, divide_vars, resolver_vars>>

\* the second pass calls what the first pass called
SamePass == prev = NoRet \/ (ret'.fn = prev.fn /\ ret'.warehouse_id = prev.warehouse_id)

PassSellerCreateStocks == ret = NoRet /\ CallSellerCreateStocks /\ SamePass
PassSellerCreatePrices == ret = NoRet /\ CallSellerCreatePrices /\ SamePass
PassMarketCreateStocks ==
    ret = NoRet /\ (\E warehouse_id \in Warehouses : CallMarketCreateStocks(warehouse_id))
                /\ SamePass
PassMarketCreatePrices == ret = NoRet /\ CallMarketCreatePrices /\ SamePass

InitIdem ==
    /\ watch_remnants \in Feeds(IdemRows)
    /\ offer_ids \in OfferLists
    /\ clock = Epoch
    /\ ret = NoRet
    /\ prev = NoRet
    /\ IdlePrice /\ IdleDivide /\ IdleResolver
    /\ IdleRun

NextIdem ==
    \/ Tick
    \/ NextPass
    \/ PassSellerCreateStocks
    \/ PassSellerCreatePrices
    \/ PassMarketCreateStocks
    \/ PassMarketCreatePrices

SpecIdem == InitIdem /\ [][NextIdem]_vars

BothPasses == prev # NoRet /\ ret # NoRet

\* C8 as stated: the second pass returns the same set of entries as the first,
\* every field compared, in both modules.
C8_SameEntries ==
    BothPasses => /\ ret.raised = prev.raised
                  /\ Elems(ret.value) = Elems(prev.value)

WithoutUpdatedAt(e) ==
    [sku |-> e.sku, warehouseId |-> e.warehouseId,
     items |-> <<[count |-> e.items[1].count, type |-> e.items[1].type]>>]

\* C8 amended: the second pass returns the same set of entries as the first,
\* every field compared, except that market.create_stocks stamps updatedAt with
\* the clock second of its run: two runs in different seconds return entries
\* that are the same in every other field.
C8_SameEntriesButTimestamp ==
    BothPasses =>
        /\ ret.raised = prev.raised
        /\ IF ret.fn = "market.create_stocks" /\ ret.now.sec # prev.now.sec
           THEN {WithoutUpdatedAt(e) : e \in Elems(ret.value)}
                    = {WithoutUpdatedAt(e) : e \in Elems(prev.value)}
           ELSE Elems(ret.value) = Elems(prev.value)

\* market.create_stocks ran in two different seconds and returned entries
C8_Witness ==
    /\ BothPasses
    /\ ret.fn = "market.create_stocks"
    /\ ret.now.sec # prev.now.sec
    /\ Len(ret.value) >= 2
    /\ ret.value # prev.value

-----------------------------------------------------------------------------
(* price_conversion and divide applied to drawn arguments *)

PriceChars == {"1", "9", ".", ",", "r"}

PriceStrings ==
    UNION {[1..len -> PriceChars] : len \in 0..MaxPrice}
        \cup {PriceRub, Price100, PriceDotted, PriceNoDigit}

CallPriceConversion ==
    /\ converted = NotCalled
    /\ converted' = Result(price_conversion(price))
    /\ UNCHANGED <<price, reconcile_vars, divide_vars, resolver_vars, run_vars>>

InitPrice ==
    /\ price \in PriceStrings
    /\ converted = NotCalled
    /\ IdleReconcile /\ IdleDivide /\ IdleResolver
    /\ IdleRun

NextPrice == CallPriceConversion

SpecPrice == InitPrice /\ [][NextPrice]_vars

\* the part of s before its first "."
BeforeFirstDot(s) ==
    LET dots == {k \in 1..Len(s) : s[k] = "."}
    IN  IF dots = {} THEN s
        ELSE SubSeq(s, 1, (CHOOSE k \in dots : \A j \in dots : k <= j) - 1)

\* C4: price_conversion returns the digits, in order, of the part of the price
\* before its first "."; "5'990.00 rrr." gives 5990 and "100" gives 100.
C4_DigitsBeforeFirstDot ==
    converted.returned =>
        /\ converted.value = SelectSeq(BeforeFirstDot(price), IsDigit)
        /\ price = PriceRub => converted.value = <<"5", "9", "9", "0">>
        /\ price = Price100 => converted.value = <<"1", "0", "0">>

\* digits after the first "." and a second "." are both dropped
C4_Witness ==
    /\ price = <<"1", ".", "9">>
    /\ converted = Result(<<"1">>)

\* C5 as stated: price_conversion("1.999,50") yields 1999.
C5_DottedThousandsGive1999 ==
    (price = PriceDotted /\ converted.returned) => converted.value = <<"1", "9", "9", "9">>

\* C5 amended: price_conversion("1.999,50") yields 1, the digits before the
\* first ".".
C5_DottedThousandsGive1 ==
    (price = PriceDotted /\ converted.returned) => converted.value = <<"1">>

C5_Witness == price = PriceDotted /\ converted = Result(<<"1">>)

DivideLists ==
    UNION {[1..len -> {1, 2}] : len \in 0..MaxLst}
        \cup {[k \in 1..len |-> k] : len \in 0..MaxLst}

CallDivide ==
    /\ chunks = NotCalled
    /\ chunks' = Result(divide(lst, n))
    /\ UNCHANGED <<lst, n, reconcile_vars, price_vars, run_vars, resolver_vars>>

InitDivide ==
    /\ lst \in DivideLists
    /\ n \in 1..MaxChunk
    /\ chunks = NotCalled
    /\ IdleReconcile /\ IdlePrice /\ IdleResolver
    /\ IdleRun

NextDivide == CallDivide

SpecDivide == InitDivide /\ [][NextDivide]_vars

RECURSIVE Concat(_)
Concat(seqs) == IF seqs = <<>> THEN <<>> ELSE Head(seqs) \o Concat(Tail(seqs))

\* C6: for n >= 1 the chunks of divide(lst, n) concatenate to lst, every chunk
\* but the last has n elements, the last has 1 to n, an empty lst has no chunk;
\* divide([1,2,3,4,5], 2) gives [[1,2],[3,4],[5]].
C6_DivideChunks ==
    chunks.returned =>
        LET got == chunks.value
        IN  /\ Concat(got) = lst
            /\ \A k \in 1..(Len(got) - 1) : Len(got[k]) = n
            /\ Len(got) > 0 => Len(got[Len(got)]) \in 1..n
            /\ lst = <<>> => Len(got) = 0
            /\ (lst = <<1, 2, 3, 4, 5>> /\ n = 2) => got = << <<1, 2>>, <<3, 4>>, <<5>> >>

C6_Witness ==
    /\ lst = <<1, 2, 3, 4, 5>> /\ n = 2
    /\ chunks = Result(<< <<1, 2>>, <<3, 4>>, <<5>> >>)

\* the (identifier, count) pairs of a stock list
StockPairs(fn, list) == [k \in 1..Len(list) |-> <<EntryId(fn, list[k]), EntryCount(fn, list[k])>>]

\* the (identifier, number) pairs of a price list; seller carries the digits as text
PricePairs(fn, list) ==
    [k \in 1..Len(list) |->
        <<EntryId(fn, list[k]),
          IF fn = "market.create_prices" THEN list[k].price.value
          ELSE IntOfStr(list[k].price).value>>]

\* both create_stocks agree on the feed and list of the last call
SameStocks ==
    LET s == seller_create_stocks(watch_remnants, ret.in_ids)
    IN  \A w \in Warehouses :
            LET m == market_create_stocks(watch_remnants, ret.in_ids, w, clock)
            IN  /\ m.raised = s.raised
                /\ m.offer_ids = s.offer_ids
                /\ StockPairs("market.create_stocks", m.value)
                       = StockPairs("seller.create_stocks", s.value)

\* a listed record of the feed has no digit before the first "." of its price
ListedPriceWithoutDigits ==
    \E k \in 1..Len(watch_remnants) :
        /\ FeedCodes[k] \in Elems(ret.in_ids)
        /\ price_conversion(watch_remnants[k].Tsena) = <<>>

\* C16 as stated: on every feed and identifier list the two create_stocks give
\* the same (identifier, count) pairs and leave the same identifiers, and the
\* two create_prices give the same (identifier, number) pairs and fail on the
\* same inputs
C16_SameOnAllInputs ==
    ret.fn \in StockFns \cup PriceFns =>
        LET s == seller_create_prices(watch_remnants, ret.in_ids)
            m == market_create_prices(watch_remnants, ret.in_ids)
        IN  /\ SameStocks
            /\ m.raised = s.raised
            /\ ~m.raised => PricePairs("market.create_prices", m.value)
                                = PricePairs("seller.create_prices", s.value)

\* C16 amended: the two create_stocks give the same (identifier, count) pairs,
\* leave the same identifiers and raise on the same inputs; the two create_prices
\* give the same (identifier, number) pairs unless a listed record's price has no
\* digit before its first ".": then market.create_prices raises ValueError and
\* seller.create_prices, which never raises, returns an entry with an empty price
C16_SameButPriceWithoutDigits ==
    ret.fn \in StockFns \cup PriceFns =>
        LET s == seller_create_prices(watch_remnants, ret.in_ids)
            m == market_create_prices(watch_remnants, ret.in_ids)
        IN  /\ SameStocks
            /\ ~s.raised
            /\ m.raised <=> ListedPriceWithoutDigits
            /\ ~m.raised => PricePairs("market.create_prices", m.value)
                                = PricePairs("seller.create_prices", s.value)
            /\ m.raised => \E k \in 1..Len(s.value) : s.value[k].price = <<>>
            /\ ret.fn = "market.create_prices" => ret.raised = m.raised
            /\ (ret.fn = "seller.create_prices" /\ ~ret.raised) => ret.value = s.value

\* market.create_prices raised on a feed seller.create_prices has a list for
C16_Witness ==
    /\ ret.fn = "market.create_prices"
    /\ ret.raised
    /\ Len(watch_remnants) = 2
    /\ Len(seller_create_prices(watch_remnants, ret.in_ids).value) = 2
    /\ seller_create_prices(watch_remnants, ret.in_ids).value[2].price = <<>>

-----------------------------------------------------------------------------
(* market.get_offer_ids: the resolver of marketplace A *)

\* dict.get of a key the response does not hold
None == "None"

\* the item lists a page can hold
PageIds == {<<>>, << <<"A">> >>, << <<"B">>, <<"C">> >>}

MarketTokens == {None, "", "t1", "t2"}

\* what market.get_product_list can return: the "result" of a response
MarketResults ==
    {[offerMappingEntries |-> [k \in 1..Len(ids) |-> [offer |-> [shopSku |-> ids[k]]]],
      paging |-> [nextPageToken |-> token]] : ids \in PageIds, token \in MarketTokens}

\* a loop test that ends on an absent token only
market_last_page_if_absent(token) == token = None

\* "not page" (line 154): the token is absent or empty
market_last_page(token) == token = None \/ token = ""

\* one turn of the loop (lines 151-155): request, extend, take the token, test
MarketGetProductList ==
    /\ pc = "market.loop"
    /\ Len(requests) < MaxPages
    /\ \E some_prod \in MarketResults :
        /\ requests' = Append(requests, page)
        /\ responses' = Append(responses, some_prod)
        /\ product_list' = product_list \o some_prod.offerMappingEntries
        /\ page' = some_prod.paging.nextPageToken
        /\ pc' = IF market_last_page(page') THEN "market.project" ELSE "market.loop"
    /\ UNCHANGED <<last_id, reconcile_vars, price_vars, run_vars, divide_vars>>

\* raise_for_status() raises in get_product_list (line 47): get_offer_ids is left
MarketGetProductListRaises ==
    /\ pc = "market.loop"
    /\ Len(requests) < MaxPages
    /\ requests' = Append(requests, page)
    /\ pc' = "raised"
    /\ UNCHANGED <<page, last_id, product_list, responses,
                   reconcile_vars, price_vars, run_vars, divide_vars>>

\* lines 156-159: project the items to their shopSku and return
MarketReturnOfferIds ==
    /\ pc = "market.project"
    /\ offer_ids' = [k \in 1..Len(product_list) |-> product_list[k].offer.shopSku]
    /\ pc' = "done"
    /\ UNCHANGED <<watch_remnants, clock, ret, prev, page, last_id, product_list,
                   requests, responses, price_vars, run_vars, divide_vars>>

InitMarketResolver ==
    /\ pc = "market.loop"
    /\ page = ""
    /\ last_id = ""
    /\ product_list = <<>>
    /\ requests = <<>>
    /\ responses = <<>>
    /\ IdleReconcile /\ IdlePrice /\ IdleDivide
    /\ IdleRun

NextMarketResolver ==
    \/ MarketGetProductList
    \/ MarketGetProductListRaises
    \/ MarketReturnOfferIds

SpecMarketResolver == InitMarketResolver /\ [][NextMarketResolver]_vars

MarketToken(k) == responses[k].paging.nextPageToken

MarketTokenEnds(k) == MarketToken(k) = None \/ MarketToken(k) = ""

MarketReceivedIds ==
    Concat([k \in 1..Len(responses) |->
               [j \in 1..Len(responses[k].offerMappingEntries) |->
                   responses[k].offerMappingEntries[j].offer.shopSku]])

\* C9: market.get_offer_ids sends the empty token first and then the token of
\* the response before; a response whose token is absent or empty is the last
\* one it receives and no request follows it; it returns the identifiers of
\* all items of all pages received, in the order received.
C9_MarketResolver ==
    /\ Len(requests) >= 1 => requests[1] = ""
    /\ \A k \in 2..Len(requests) : requests[k] = MarketToken(k - 1)
    /\ \A k \in 1..Len(responses) :
           MarketTokenEnds(k) <=> (k = Len(responses) /\ pc \in {"market.project", "done"})
    /\ pc \in {"market.project", "done"} =>
           Len(responses) >= 1 /\ Len(requests) = Len(responses)
    /\ pc = "done" => offer_ids = MarketReceivedIds

\* three pages: the second token is passed on, the third page ends with ""
C9_Witness ==
    /\ pc = "done"
    /\ Len(responses) = 3
    /\ requests = <<"", "t1", "t2">>
    /\ MarketToken(3) = ""
    /\ offer_ids = << <<"A">>, <<"B">>, <<"C">>, <<"A">> >>

-----------------------------------------------------------------------------
(* seller.get_offer_ids: the resolver of marketplace B *)

SellerLastIds == {"id1", "id2"}

\* what seller.get_product_list can return: the "result" of a response
SellerResults ==
    {[items |-> [k \in 1..Len(ids) |-> [offer_id |-> ids[k]]],
      total |-> total, last_id |-> cursor] :
        ids \in PageIds, total \in 0..MaxTotal, cursor \in SellerLastIds}

\* a loop test that also ends once more items than the total are held
seller_complete_at_least(total, products) == total <= Len(products)

\* "total == len(product_list)" (line 87)
seller_complete(total, products) == total = Len(products)

\* one turn of the loop (lines 83-88): request, extend, take total and last_id, test
SellerGetProductList ==
    /\ pc = "seller.loop"
    /\ Len(requests) < MaxPages
    /\ \E some_prod \in SellerResults :
        /\ requests' = Append(requests, last_id)
        /\ responses' = Append(responses, some_prod)
        /\ product_list' = product_list \o some_prod.items
        /\ last_id' = some_prod.last_id
        /\ pc' = IF seller_complete(some_prod.total, product_list')
                 THEN "seller.project" ELSE "seller.loop"
    /\ UNCHANGED <<page, reconcile_vars, price_vars, run_vars, divide_vars>>

\* raise_for_status() raises in get_product_list (line 49): get_offer_ids is left
SellerGetProductListRaises ==
    /\ pc = "seller.loop"
    /\ Len(requests) < MaxPages
    /\ requests' = Append(requests, last_id)
    /\ pc' = "raised"
    /\ UNCHANGED <<page, last_id, product_list, responses,
                   reconcile_vars, price_vars, run_vars, divide_vars>>

\* lines 89-92: project the items to their offer_id and return
SellerReturnOfferIds ==
    /\ pc = "seller.project"
    /\ offer_ids' = [k \in 1..Len(product_list) |-> product_list[k].offer_id]
    /\ pc' = "done"
    /\ UNCHANGED <<watch_remnants, clock, ret, prev, page, last_id, product_list,
                   requests, responses, price_vars, run_vars, divide_vars>>

InitSellerResolver ==
    /\ pc = "seller.loop"
    /\ page = ""
    /\ last_id = ""
    /\ product_list = <<>>
    /\ requests = <<>>
    /\ responses = <<>>
    /\ IdleReconcile /\ IdlePrice /\ IdleDivide
    /\ IdleRun

NextSellerResolver ==
    \/ SellerGetProductList
    \/ SellerGetProductListRaises
    \/ SellerReturnOfferIds

SpecSellerResolver == InitSellerResolver /\ [][NextSellerResolver]_vars

\* the number of items received up to and with response k
RECURSIVE SellerReceived(_)
SellerReceived(k) == IF k = 0 THEN 0 ELSE SellerReceived(k - 1) + Len(responses[k].items)

SellerReceivedIds ==
    Concat([k \in 1..Len(responses) |->
               [j \in 1..Len(responses[k].items) |-> responses[k].items[j].offer_id]])

\* C10: seller.get_offer_ids sends the empty last_id first and then the last_id
\* of the response before; it completes at the first response whose total
\* equals the number of items received so far; it returns the offer_id of all
\* items received, in the order received, as many as that total.
C10_SellerResolver ==
    /\ Len(requests) >= 1 => requests[1] = ""
    /\ \A k \in 2..Len(requests) : requests[k] = responses[k - 1].last_id
    /\ \A k \in 1..Len(responses) :
           (responses[k].total = SellerReceived(k))
               <=> (k = Len(responses) /\ pc \in {"seller.project", "done"})
    /\ pc \in {"seller.project", "done"} =>
           Len(responses) >= 1 /\ Len(requests) = Len(responses)
    /\ pc = "done" =>
           /\ offer_ids = SellerReceivedIds
           /\ Len(offer_ids) = responses[Len(responses)].total

\* a catalogue of three items served in two pages
C10_Witness ==
    /\ pc = "done"
    /\ Len(responses) = 2
    /\ responses[1].total = 3 /\ responses[2].total = 3
    /\ requests = <<"", "id1">>
    /\ offer_ids = << <<"A">>, <<"B">>, <<"C">> >>

\* C18: once the items received reach or exceed the total a response reports
\* (also when the total shrinks between two pages, or a page carries the count
\* past the total), seller.get_offer_ids requests no further page
C18_NoRequestOnceTotalReached ==
    routine = "none" =>
        \A k \in 1..Len(responses) :
            SellerReceived(k) >= responses[k].total => Len(requests) = k

-----------------------------------------------------------------------------
(* The upload routines: upload_stocks and upload_prices of both modules *)

\* the chunk sizes at the call sites of divide
seller_upload_prices_chunk == 1000
seller_upload_stocks_chunk == 100
market_upload_prices_chunk == 500
market_upload_stocks_chunk == 2000

UploadRoutines ==
    {"seller.upload_stocks", "seller.upload_prices",
     "market.upload_stocks", "market.upload_prices"}

PriceRoutines == {"seller.upload_prices", "market.upload_prices"}

Chunk(r) ==
    IF r = "seller.upload_prices" THEN seller_upload_prices_chunk
    ELSE IF r = "seller.upload_stocks" THEN seller_upload_stocks_chunk
    ELSE IF r = "market.upload_prices" THEN market_upload_prices_chunk
    ELSE market_upload_stocks_chunk

UpdateOp(r) == IF r \in PriceRoutines THEN "update_price" ELSE "update_stocks"

\* what requests raises: ReadTimeout, ConnectionError, or HTTPError of raise_for_status
TransportErrors == {"ReadTimeout", "ConnectionError", "HTTPError"}

\* a marketplace call as the routine made it
Call(op, camp, data, raised) ==
    [op |-> op, campaign |-> camp, data |-> data, raised |-> raised]

\* a catalogue of len products numbered from 1, and a feed of them
BigIds(len) == [k \in 1..len |-> DecStr(k)]
BigFeed(len) ==
    [k \in 1..len |-> [Kod |-> PyInt(k), Kolichestvo |-> PyInt(12), Tsena |-> Price100]]

SmallFeeds ==
    { <<>>,
      << Row(<<"A">>, <<PyStr(<<">", "1", "0">>), PriceRub>>) >>,
      << Row(<<"A">>, <<PyStr(<<"7">>), Price100>>),
         Row(<<"A">>, <<PyInt(1), PriceDotted>>) >>,
      << Row(<<"B">>, <<PyStr(<<"7">>), PriceRub>>),
         Row(<<"A">>, <<PyStr(<<"n", "e", "t">>), Price100>>) >>,
      << Row(<<"C">>, <<PyStr(<<"0">>), PriceNoDigit>>) >>,
      << Row(<<"Z">>, <<PyStr(<<"7">>), Price100>>), BigFeed(1)[1] >> }

\* a price list grows with the feed, so the price routines also get feeds longer
\* than their chunk; a stock list grows with the identifier list
UploadFeeds(r) ==
    SmallFeeds \cup (IF r \in PriceRoutines THEN {BigFeed(Chunk(r) + 1)} ELSE {})

UploadOfferLists ==
    { <<>>, << <<"A">> >>, << <<"C">>, <<"A">>, <<"B">> >>,
      BigIds(seller_upload_stocks_chunk + 1),
      BigIds(seller_upload_prices_chunk + 1),
      BigIds(market_upload_stocks_chunk + 1) }

\* what the routine goes to when a call raises: nothing catches, the routine is left
upload_swallows == "upload.loop"

upload_raises == "raised"

\* the chunks handed to the loop when the list is not divided
upload_batches_whole(list, size) == IF Len(list) = 0 THEN <<>> ELSE <<list>>

\* list(divide(list, size)) at the head of the loop
upload_batches(list, size) == divide(list, size)

\* offer_ids = get_offer_ids(...) returns
UploadGetOfferIds ==
    /\ routine \in UploadRoutines
    /\ pc = "upload.resolve"
    /\ \E ids \in UploadOfferLists :
        /\ offer_ids' = ids
        /\ calls' = Append(calls, Call("get_offer_ids", "none", ids, FALSE))
    /\ pc' = "upload.create"
    /\ UNCHANGED <<watch_remnants, clock, ret, prev, price_vars, divide_vars,
                   page, last_id, product_list, requests, responses,
                   routine, campaign, stock_list, price_list, batches, err, printed>>

\* get_offer_ids(...) raises what get_product_list raised
UploadGetOfferIdsRaises ==
    /\ routine \in UploadRoutines
    /\ pc = "upload.resolve"
    /\ \E e \in TransportErrors : err' = e
    /\ calls' = Append(calls, Call("get_offer_ids", "none", <<>>, TRUE))
    /\ pc' = upload_raises
    /\ UNCHANGED <<reconcile_vars, price_vars, divide_vars,
                   page, last_id, product_list, requests, responses,
                   routine, campaign, stock_list, price_list, batches, printed>>

\* the create_stocks / create_prices call of the routine
UploadCreated(warehouse_id) ==
    IF routine = "seller.upload_stocks" THEN seller_create_stocks(watch_remnants, offer_ids)
    ELSE IF routine = "seller.upload_prices"
         THEN seller_create_prices(watch_remnants, offer_ids)
    ELSE IF routine = "market.upload_stocks"
         THEN market_create_stocks(watch_remnants, offer_ids, warehouse_id, clock)
    ELSE market_create_prices(watch_remnants, offer_ids)

\* stocks = create_stocks(...) or prices = create_prices(...), then list(divide(...))
UploadCreate ==
    /\ routine \in UploadRoutines
    /\ pc = "upload.create"
    /\ \E warehouse_id \in (IF routine = "market.upload_stocks"
                            THEN Warehouses ELSE {"none"}) :
        LET r == UploadCreated(warehouse_id)
        IN  /\ offer_ids' = r.offer_ids
            /\ IF r.raised
               THEN /\ err' = "ValueError"
                    /\ pc' = "raised"
                    /\ UNCHANGED <<stock_list, price_list, batches>>
               ELSE /\ err' = err
                    /\ pc' = "upload.loop"
                    /\ batches' = upload_batches(r.value, Chunk(routine))
                    /\ IF routine \in PriceRoutines
                       THEN price_list' = r.value /\ stock_list' = stock_list
                       ELSE stock_list' = r.value /\ price_list' = price_list
    /\ UNCHANGED <<watch_remnants, clock, ret, prev, price_vars, divide_vars,
                   page, last_id, product_list, requests, responses,
                   routine, campaign, calls, printed>>

\* one turn of the loop: update_stocks / update_price of the next chunk returns
UploadUpdate ==
    /\ routine \in UploadRoutines
    /\ pc = "upload.loop"
    /\ Len(batches) > 0
    /\ calls' = Append(calls, Call(UpdateOp(routine), "none", Head(batches), FALSE))
    /\ batches' = Tail(batches)
    /\ UNCHANGED <<reconcile_vars, price_vars, divide_vars, resolver_vars,
                   routine, campaign, stock_list, price_list, err, printed>>

\* one turn of the loop: update_stocks / update_price of the next chunk raises
UploadUpdateRaises ==
    /\ routine \in UploadRoutines
    /\ pc = "upload.loop"
    /\ Len(batches) > 0
    /\ calls' = Append(calls, Call(UpdateOp(routine), "none", Head(batches), TRUE))
    /\ \E e \in TransportErrors : err' = e
    /\ pc' = upload_raises
    /\ UNCHANGED <<reconcile_vars, price_vars, divide_vars,
                   page, last_id, product_list, requests, responses,
                   routine, campaign, stock_list, price_list, batches, printed>>

\* the entries whose count is not 0 (the filter of upload_stocks)
NotEmpty(r, list) ==
    LET HasStock(e) == IF r = "market.upload_stocks" THEN e.items[1].count # 0
                       ELSE e.stock # 0
    IN  SelectSeq(list, HasStock)

\* the loop is over: return prices, or (not_empty, stocks)
UploadReturn ==
    /\ routine \in UploadRoutines
    /\ pc = "upload.loop"
    /\ Len(batches) = 0
    /\ pc' = "returned"
    /\ ret' = [fn |-> routine, raised |-> FALSE,
               value |-> IF routine \in PriceRoutines THEN price_list
                         ELSE <<NotEmpty(routine, stock_list), stock_list>>,
               in_ids |-> <<>>, warehouse_id |-> "none", now |-> clock]
    /\ UNCHANGED <<watch_remnants, offer_ids, clock, prev, price_vars, divide_vars,
                   page, last_id, product_list, requests, responses, run_vars>>

ResolverRoutines == {"seller.get_offer_ids", "market.get_offer_ids"}

\* a routine is called: an upload routine with a feed, or get_offer_ids alone
InitUpload ==
    /\ routine \in UploadRoutines \cup ResolverRoutines
    /\ watch_remnants \in (IF routine \in UploadRoutines THEN UploadFeeds(routine) ELSE {<<>>})
    /\ pc = IF routine \in UploadRoutines THEN "upload.resolve"
            ELSE IF routine = "seller.get_offer_ids" THEN "seller.loop" ELSE "market.loop"
    /\ offer_ids = <<>> /\ clock = Epoch /\ ret = NoRet /\ prev = NoRet
    /\ page = "" /\ last_id = "" /\ product_list = <<>>
    /\ requests = <<>> /\ responses = <<>>
    /\ campaign = "none" /\ stock_list = <<>> /\ price_list = <<>> /\ batches = <<>>
    /\ calls = <<>> /\ err = NoError /\ printed = <<>>
    /\ IdlePrice /\ IdleDivide

NextUpload ==
    \/ UploadGetOfferIds
    \/ UploadGetOfferIdsRaises
    \/ UploadCreate
    \/ UploadUpdate
    \/ UploadUpdateRaises
    \/ UploadReturn
    \/ MarketGetProductList
    \/ MarketGetProductListRaises
    \/ MarketReturnOfferIds
    \/ SellerGetProductList
    \/ SellerGetProductListRaises
    \/ SellerReturnOfferIds

SpecUpload == InitUpload /\ [][NextUpload]_vars

\* the positions of the calls that raised
RaisedCalls == {k \in 1..Len(calls) : calls[k].raised}

\* C11: a list or bulk-update call that raises a transport error is the last call
\* of the routine: get_offer_ids, upload_stocks and upload_prices neither catch it
\* nor repeat the call, the routine is left with that error and returns nothing,
\* and no batch after the failing one is submitted
C11_FailLoud ==
    /\ routine \in UploadRoutines =>
        /\ \A k \in RaisedCalls :
            /\ k = Len(calls)
            /\ pc = "raised"
            /\ err \in TransportErrors
            /\ ret = NoRet
        /\ (pc = "raised" /\ err \in TransportErrors) => RaisedCalls = {Len(calls)}
    /\ routine \in ResolverRoutines =>
        /\ Len(requests) <= Len(responses) + 1
        /\ Len(requests) > Len(responses) => (pc = "raised" /\ offer_ids = <<>>)

\* the first of two batches raised: the second one stays unsubmitted
C11_Witness ==
    /\ routine \in UploadRoutines
    /\ pc = "raised"
    /\ Len(calls) = 2
    /\ calls[2].op = UpdateOp(routine)
    /\ calls[2].raised
    /\ Len(calls[2].data) = Chunk(routine)
    /\ Len(batches) = 2

\* the identifier an entry of an update payload carries
UploadEntryId(r, e) ==
    IF r = "market.upload_stocks" THEN e.sku
    ELSE IF r = "market.upload_prices" THEN e.id
    ELSE e.offer_id

\* the payloads of the bulk-update calls, in call order
Payloads ==
    LET IsUpdate(c) == c.op \in {"update_stocks", "update_price"}
        updates == SelectSeq(calls, IsUpdate)
    IN  [k \in 1..Len(updates) |-> updates[k].data]

\* the identifiers sent by the bulk-update calls, in call order
SentIds ==
    LET sent == Concat(Payloads)
    IN  [k \in 1..Len(sent) |-> UploadEntryId(routine, sent[k])]

\* C15: within one stock upload and within one price upload no identifier is
\* carried by two batch calls nor twice inside one batch, whatever the feed
C15_BatchesDisjoint ==
    routine \in UploadRoutines => Cardinality(Elems(SentIds)) = Len(SentIds)

\* the reconciled list the routine divides
Reconciled == IF routine \in PriceRoutines THEN price_list ELSE stock_list

\* C17: every bulk-update call of upload_stocks and upload_prices carries at
\* least one entry and at most the chunk size of its call site (seller: 100 stock
\* entries, 1000 price entries; market: 2000 stock entries, 500 price entries);
\* the payloads in call order, followed by the chunks not yet sent, are the
\* reconciled list, all of it once the routine returns; an empty list gives no call
C17_PayloadSizes ==
    routine \in UploadRoutines =>
        LET sent == Concat(Payloads)
        IN  /\ \A k \in 1..Len(Payloads) : Len(Payloads[k]) \in 1..Chunk(routine)
            /\ sent = SubSeq(Reconciled, 1, Len(sent))
            /\ pc = "upload.loop" => sent \o Concat(batches) = Reconciled
            /\ pc = "returned" => sent = Reconciled
            /\ Reconciled = <<>> => Payloads = <<>>
            /\ seller_upload_stocks_chunk = 100 /\ seller_upload_prices_chunk = 1000
            /\ market_upload_stocks_chunk = 2000 /\ market_upload_prices_chunk = 500

\* 2001 stock entries of marketplace A went out as 2000 and 1
C17_Witness ==
    /\ routine = "market.upload_stocks"
    /\ pc = "returned"
    /\ Len(Payloads) = 2
    /\ Len(Payloads[1]) = 2000 /\ Len(Payloads[2]) = 1
    /\ Len(stock_list) = 2001

-----------------------------------------------------------------------------
(* market.main: the FBS run and the DBS run inside one try *)

\* divide(stocks, 2000) in main
market_main_stocks_chunk == 2000

Campaigns == {"FBS", "DBS"}

\* warehouse_fbs_id goes with campaign_fbs_id, warehouse_dbs_id with campaign_dbs_id
CampaignWarehouse(camp) == IF camp = "FBS" THEN "WAREHOUSE_FBS_ID" ELSE "WAREHOUSE_DBS_ID"

\* the identifier lists a campaign can hold in a run of main
MainOfferLists ==
    { <<>>, << <<"A">> >>, << <<"C">>, <<"A">>, <<"B">> >>,
      BigIds(market_main_stocks_chunk + 1) }

\* what the except clauses print: ReadTimeout and ConnectionError have their own
\* clause, every other exception falls to "except Exception"
main_message(e) ==
    IF e = "ReadTimeout" THEN "timeout"
    ELSE IF e = "ConnectionError" THEN "connection error"
    ELSE "ERROR_2"

\* a handler that would go on with the campaign after the failed one
main_resumes(camp) ==
    IF camp = "FBS" THEN [pc |-> "main.resolve", campaign |-> "DBS"]
    ELSE [pc |-> "main.done", campaign |-> camp]

\* after an except clause main is over: the one try holds both campaigns
main_after_except(camp) == [pc |-> "main.done", campaign |-> camp]

\* what main does with upload_prices(...): calling an "async def" only builds a
\* coroutine object; main never awaits it, so its body does not run
main_upload_prices_call == <<>>

\* watch_remnants = download_stock() (before the try)
MarketMainDownloadStock ==
    /\ routine = "market.main"
    /\ pc = "main.download"
    /\ watch_remnants' \in SmallFeeds
    /\ campaign' = "FBS"
    /\ pc' = "main.resolve"
    /\ UNCHANGED <<offer_ids, clock, ret, prev, price_vars, divide_vars,
                   page, last_id, product_list, requests, responses,
                   routine, stock_list, price_list, batches, calls, err, printed>>

\* download_stock() raises: no except clause covers it, main is left with the error
MarketMainDownloadStockRaises ==
    /\ routine = "market.main"
    /\ pc = "main.download"
    /\ \E e \in TransportErrors : err' = e
    /\ pc' = "uncaught"
    /\ UNCHANGED <<reconcile_vars, price_vars, divide_vars,
                   page, last_id, product_list, requests, responses,
                   routine, campaign, stock_list, price_list, batches, calls, printed>>

\* offer_ids = get_offer_ids(campaign_id, market_token) returns
MarketMainGetOfferIds ==
    /\ routine = "market.main"
    /\ pc = "main.resolve"
    /\ \E ids \in MainOfferLists :
        /\ offer_ids' = ids
        /\ calls' = Append(calls, Call("get_offer_ids", campaign, ids, FALSE))
    /\ pc' = "main.create"
    /\ UNCHANGED <<watch_remnants, clock, ret, prev, price_vars, divide_vars,
                   page, last_id, product_list, requests, responses,
                   routine, campaign, stock_list, price_list, batches, err, printed>>

\* get_offer_ids raises: to the except clauses
MarketMainGetOfferIdsRaises ==
    /\ routine = "market.main"
    /\ pc = "main.resolve"
    /\ \E e \in TransportErrors : err' = e
    /\ calls' = Append(calls, Call("get_offer_ids", campaign, <<>>, TRUE))
    /\ pc' = "main.except"
    /\ UNCHANGED <<reconcile_vars, price_vars, divide_vars,
                   page, last_id, product_list, requests, responses,
                   routine, campaign, stock_list, price_list, batches, printed>>

\* stocks = create_stocks(watch_remnants, offer_ids, warehouse_id); list(divide(stocks, 2000))
MarketMainCreateStocks ==
    /\ routine = "market.main"
    /\ pc = "main.create"
    /\ LET r == market_create_stocks(watch_remnants, offer_ids,
                                     CampaignWarehouse(campaign), clock)
       IN  /\ offer_ids' = r.offer_ids
           /\ IF r.raised
              THEN /\ err' = "ValueError"
                   /\ pc' = "main.except"
                   /\ UNCHANGED <<stock_list, batches>>
              ELSE /\ err' = err
                   /\ pc' = "main.stocks"
                   /\ stock_list' = r.value
                   /\ batches' = divide(r.value, market_main_stocks_chunk)
    /\ UNCHANGED <<watch_remnants, clock, ret, prev, price_vars, divide_vars,
                   page, last_id, product_list, requests, responses,
                   routine, campaign, price_list, calls, printed>>

\* update_stocks(some_stock, campaign_id, market_token) returns
MarketMainUpdateStocks ==
    /\ routine = "market.main"
    /\ pc = "main.stocks"
    /\ Len(batches) > 0
    /\ calls' = Append(calls, Call("update_stocks", campaign, Head(batches), FALSE))
    /\ batches' = Tail(batches)
    /\ UNCHANGED <<reconcile_vars, price_vars, divide_vars, resolver_vars,
                   routine, campaign, stock_list, price_list, err, printed>>

\* update_stocks raises: to the except clauses
MarketMainUpdateStocksRaises ==
    /\ routine = "market.main"
    /\ pc = "main.stocks"
    /\ Len(batches) > 0
    /\ calls' = Append(calls, Call("update_stocks", campaign, Head(batches), TRUE))
    /\ \E e \in TransportErrors : err' = e
    /\ pc' = "main.except"
    /\ UNCHANGED <<reconcile_vars, price_vars, divide_vars,
                   page, last_id, product_list, requests, responses,
                   routine, campaign, stock_list, price_list, batches, printed>>

\* upload_prices(watch_remnants, campaign_id, market_token), then on to DBS or to the end
MarketMainUploadPrices ==
    /\ routine = "market.main"
    /\ pc = "main.stocks"
    /\ Len(batches) = 0
    /\ calls' = calls \o main_upload_prices_call
    /\ IF campaign = "FBS"
       THEN campaign' = "DBS" /\ pc' = "main.resolve"
       ELSE campaign' = campaign /\ pc' = "main.done"
    /\ UNCHANGED <<reconcile_vars, price_vars, divide_vars,
                   page, last_id, product_list, requests, responses,
                   routine, stock_list, price_list, batches, err, printed>>

\* the except clause that matches prints its message
MarketMainExcept ==
    /\ routine = "market.main"
    /\ pc = "main.except"
    /\ printed' = Append(printed, main_message(err))
    /\ pc' = main_after_except(campaign).pc
    /\ campaign' = main_after_except(campaign).campaign
    /\ UNCHANGED <<reconcile_vars, price_vars, divide_vars,
                   page, last_id, product_list, requests, responses,
                   routine, stock_list, price_list, batches, calls, err>>

InitMarketMain ==
    /\ routine = "market.main"
    /\ pc = "main.download"
    /\ campaign = "none"
    /\ stock_list = <<>> /\ price_list = <<>> /\ batches = <<>>
    /\ calls = <<>> /\ err = NoError /\ printed = <<>>
    /\ IdleReconcile /\ IdlePrice /\ IdleDivide
    /\ page = "" /\ last_id = "" /\ product_list = <<>>
    /\ requests = <<>> /\ responses = <<>>

NextMarketMain ==
    \/ MarketMainDownloadStock
    \/ MarketMainDownloadStockRaises
    \/ MarketMainGetOfferIds
    \/ MarketMainGetOfferIdsRaises
    \/ MarketMainCreateStocks
    \/ MarketMainUpdateStocks
    \/ MarketMainUpdateStocksRaises
    \/ MarketMainUploadPrices
    \/ MarketMainExcept

SpecMarketMain == InitMarketMain /\ [][NextMarketMain]_vars

\* the calls made for one campaign
CampaignCalls(camp) ==
    LET Of(c) == c.campaign = camp
    IN  SelectSeq(calls, Of)

\* C12 as stated: when a call of the FBS run raises, main prints a message and
\* goes on to the DBS run, whose offer listing is still attempted
C12_ContinuesToNextCampaign ==
    (routine = "market.main" /\ pc = "main.done" /\ err # NoError /\ campaign = "FBS")
        => /\ Len(printed) = 1
           /\ \E k \in 1..Len(calls) :
                  calls[k].campaign = "DBS" /\ calls[k].op = "get_offer_ids"

\* C12 amended: when a call of a campaign's run raises, main prints the one
\* message of the matching except clause and ends: the raising call is the last
\* call main makes, and after an error in the FBS run no DBS call is made
C12_FirstErrorEndsMain ==
    routine = "market.main" =>
        /\ RaisedCalls \subseteq {Len(calls)}
        /\ Len(printed) <= 1
        /\ (pc = "main.done" /\ err # NoError) =>
               /\ printed = <<main_message(err)>>
               /\ campaign = "FBS" => CampaignCalls("DBS") = <<>>
        /\ (pc = "main.done" /\ err = NoError) => printed = <<>>
        /\ printed # <<>> => pc = "main.done" /\ err # NoError

\* the first of two FBS stock batches raised ReadTimeout: one message, no DBS call
C12_Witness ==
    /\ routine = "market.main"
    /\ pc = "main.done"
    /\ err = "ReadTimeout"
    /\ printed = <<"timeout">>
    /\ campaign = "FBS"
    /\ Len(calls) = 2
    /\ calls[2].op = "update_stocks" /\ calls[2].raised
    /\ Len(batches) = 2
    /\ CampaignCalls("DBS") = <<>>

\* the positions of the offer listings of a campaign
Listings(camp) ==
    {k \in 1..Len(calls) : calls[k].campaign = camp /\ calls[k].op = "get_offer_ids"}

\* the price payloads sent for a campaign, in call order
PricePayloads(camp) ==
    LET IsPrice(c) == c.campaign = camp /\ c.op = "update_price"
        updates == SelectSeq(calls, IsPrice)
    IN  [k \in 1..Len(updates) |-> updates[k].data]

\* C13: in an error-free run of market.main, when main has completed, each of the
\* two upload_prices calls has resolved its campaign's offers (a second listing
\* of the campaign, after the one main makes for the stocks) and has sent every
\* price batch of the campaign
C13_PricesAttempted ==
    (routine = "market.main" /\ pc = "main.done" /\ err = NoError) =>
        \A camp \in Campaigns :
            /\ Cardinality(Listings(camp)) = 2
            /\ \A k \in Listings(camp) :
                   (\E h \in Listings(camp) : h < k) =>
                       Concat(PricePayloads(camp))
                           = market_create_prices(watch_remnants, calls[k].data).value

-----------------------------------------------------------------------------
(* seller.main: stocks, then prices, inside one try *)

\* divide(stocks, 100) and divide(prices, 900) in main
seller_main_stocks_chunk == 100
seller_main_prices_chunk == 900

\* the identifier lists get_offer_ids can return to main; it does not drop an
\* identifier that two pages repeat
SellerMainOfferLists ==
    { <<>>, << <<"A">> >>, << <<"C">>, <<"A">>, <<"B">> >>, << <<"A">>, <<"A">> >>,
      BigIds(seller_main_stocks_chunk + 1) }

\* offer_ids = get_offer_ids(client_id, seller_token) returns
SellerMainGetOfferIds ==
    /\ routine = "seller.main"
    /\ pc = "main.resolve"
    /\ \E ids \in SellerMainOfferLists :
        /\ offer_ids' = ids
        /\ calls' = Append(calls, Call("get_offer_ids", "none", ids, FALSE))
    /\ pc' = "main.download"
    /\ UNCHANGED <<watch_remnants, clock, ret, prev, price_vars, divide_vars,
                   page, last_id, product_list, requests, responses,
                   routine, campaign, stock_list, price_list, batches, err, printed>>

\* get_offer_ids raises: to the except clauses
SellerMainGetOfferIdsRaises ==
    /\ routine = "seller.main"
    /\ pc = "main.resolve"
    /\ \E e \in TransportErrors : err' = e
    /\ calls' = Append(calls, Call("get_offer_ids", "none", <<>>, TRUE))
    /\ pc' = "main.except"
    /\ UNCHANGED <<reconcile_vars, price_vars, divide_vars,
                   page, last_id, product_list, requests, responses,
                   routine, campaign, stock_list, price_list, batches, printed>>

\* watch_remnants = download_stock() (inside the try)
SellerMainDownloadStock ==
    /\ routine = "seller.main"
    /\ pc = "main.download"
    /\ watch_remnants' \in SmallFeeds
    /\ pc' = "main.create"
    /\ UNCHANGED <<offer_ids, clock, ret, prev, price_vars, divide_vars,
                   page, last_id, product_list, requests, responses, run_vars>>

\* download_stock() raises: to the except clauses
SellerMainDownloadStockRaises ==
    /\ routine = "seller.main"
    /\ pc = "main.download"
    /\ \E e \in TransportErrors : err' = e
    /\ pc' = "main.except"
    /\ UNCHANGED <<reconcile_vars, price_vars, divide_vars,
                   page, last_id, product_list, requests, responses,
                   routine, campaign, stock_list, price_list, batches, calls, printed>>

\* stocks = create_stocks(watch_remnants, offer_ids); list(divide(stocks, 100))
SellerMainCreateStocks ==
    /\ routine = "seller.main"
    /\ pc = "main.create"
    /\ LET r == seller_create_stocks(watch_remnants, offer_ids)
       IN  /\ offer_ids' = r.offer_ids
           /\ IF r.raised
              THEN /\ err' = "ValueError"
                   /\ pc' = "main.except"
                   /\ UNCHANGED <<stock_list, batches>>
              ELSE /\ err' = err
                   /\ pc' = "main.stocks"
                   /\ stock_list' = r.value
                   /\ batches' = divide(r.value, seller_main_stocks_chunk)
    /\ UNCHANGED <<watch_remnants, clock, ret, prev, price_vars, divide_vars,
                   page, last_id, product_list, requests, responses,
                   routine, campaign, price_list, calls, printed>>

\* update_stocks(some_stock, client_id, seller_token) returns
SellerMainUpdateStocks ==
    /\ routine = "seller.main"
    /\ pc = "main.stocks"
    /\ Len(batches) > 0
    /\ calls' = Append(calls, Call("update_stocks", "none", Head(batches), FALSE))
    /\ batches' = Tail(batches)
    /\ UNCHANGED <<reconcile_vars, price_vars, divide_vars, resolver_vars,
                   routine, campaign, stock_list, price_list, err, printed>>

\* update_stocks raises: to the except clauses
SellerMainUpdateStocksRaises ==
    /\ routine = "seller.main"
    /\ pc = "main.stocks"
    /\ Len(batches) > 0
    /\ calls' = Append(calls, Call("update_stocks", "none", Head(batches), TRUE))
    /\ \E e \in TransportErrors : err' = e
    /\ pc' = "main.except"
    /\ UNCHANGED <<reconcile_vars, price_vars, divide_vars,
                   page, last_id, product_list, requests, responses,
                   routine, campaign, stock_list, price_list, batches, printed>>

\* prices = create_prices(watch_remnants, offer_ids); list(divide(prices, 900)):
\* offer_ids is the list object create_stocks has removed the matched identifiers from
SellerMainCreatePrices ==
    /\ routine = "seller.main"
    /\ pc = "main.stocks"
    /\ Len(batches) = 0
    /\ LET r == seller_create_prices(watch_remnants, offer_ids)
       IN  /\ offer_ids' = r.offer_ids
           /\ price_list' = r.value
           /\ batches' = divide(r.value, seller_main_prices_chunk)
    /\ pc' = "main.prices"
    /\ UNCHANGED <<watch_remnants, clock, ret, prev, price_vars, divide_vars,
                   page, last_id, product_list, requests, responses,
                   routine, campaign, stock_list, calls, err, printed>>

\* update_price(some_price, client_id, seller_token) returns
SellerMainUpdatePrice ==
    /\ routine = "seller.main"
    /\ pc = "main.prices"
    /\ Len(batches) > 0
    /\ calls' = Append(calls, Call("update_price", "none", Head(batches), FALSE))
    /\ batches' = Tail(batches)
    /\ UNCHANGED <<reconcile_vars, price_vars, divide_vars, resolver_vars,
                   routine, campaign, stock_list, price_list, err, printed>>

\* update_price raises: to the except clauses
SellerMainUpdatePriceRaises ==
    /\ routine = "seller.main"
    /\ pc = "main.prices"
    /\ Len(batches) > 0
    /\ calls' = Append(calls, Call("update_price", "none", Head(batches), TRUE))
    /\ \E e \in TransportErrors : err' = e
    /\ pc' = "main.except"
    /\ UNCHANGED <<reconcile_vars, price_vars, divide_vars,
                   page, last_id, product_list, requests, responses,
                   routine, campaign, stock_list, price_list, batches, printed>>

\* the price loop is over: the try block ends, main returns
SellerMainDone ==
    /\ routine = "seller.main"
    /\ pc = "main.prices"
    /\ Len(batches) = 0
    /\ pc' = "main.done"
    /\ UNCHANGED <<reconcile_vars, price_vars, divide_vars,
                   page, last_id, product_list, requests, responses, run_vars>>

\* the except clause that matches prints its message, main returns
SellerMainExcept ==
    /\ routine = "seller.main"
    /\ pc = "main.except"
    /\ printed' = Append(printed, main_message(err))
    /\ pc' = "main.done"
    /\ UNCHANGED <<reconcile_vars, price_vars, divide_vars,
                   page, last_id, product_list, requests, responses,
                   routine, campaign, stock_list, price_list, batches, calls, err>>

InitSellerMain ==
    /\ routine = "seller.main"
    /\ pc = "main.resolve"
    /\ campaign = "none"
    /\ stock_list = <<>> /\ price_list = <<>> /\ batches = <<>>
    /\ calls = <<>> /\ err = NoError /\ printed = <<>>
    /\ IdleReconcile /\ IdlePrice /\ IdleDivide
    /\ page = "" /\ last_id = "" /\ product_list = <<>>
    /\ requests = <<>> /\ responses = <<>>

NextSellerMain ==
    \/ SellerMainGetOfferIds
    \/ SellerMainGetOfferIdsRaises
    \/ SellerMainDownloadStock
    \/ SellerMainDownloadStockRaises
    \/ SellerMainCreateStocks
    \/ SellerMainUpdateStocks
    \/ SellerMainUpdateStocksRaises
    \/ SellerMainCreatePrices
    \/ SellerMainUpdatePrice
    \/ SellerMainUpdatePriceRaises
    \/ SellerMainDone
    \/ SellerMainExcept

SpecSellerMain == InitSellerMain /\ [][NextSellerMain]_vars

\* C14: in seller.main the price list that is uploaded is the price
\* reconciliation of the feed against the identifier list as get_offer_ids
\* returned it: stock reconciliation, which ran first, takes nothing away from
\* it, and an error-free run has sent all of it
C14_PricesFromResolvedIds ==
    (routine = "seller.main" /\ (pc = "main.prices" \/ (pc = "main.done" /\ err = NoError))) =>
        LET resolved == calls[1].data
            expected == seller_create_prices(watch_remnants, resolved).value
        IN  /\ price_list = expected
            /\ pc = "main.done" => Concat(PricePayloads("none")) = expected

=============================================================================
